---- MODULE Spec2Model ----
(***************************************************************************)
(* Model of src/src/api.ts (zodios api helpers): the uniqueness validator  *)
(* checkApi, the pass-through asApi, the immutable Builder and the CRUD    *)
(* generator asCrudApi.                                                    *)
(*                                                                         *)
(* JavaScript strings are modelled as sequences of one-character strings,  *)
(* so that template literals are real concatenations.  Arrays live in a    *)
(* heap (arrays) and are referred to by address, so that sharing between   *)
(* builders is visible.                                                    *)
(***************************************************************************)
EXTENDS Integers, Sequences, FiniteSets, TLC

VARIABLES
    arrays,     \* heap of arrays: address -> sequence of endpoint descriptions
    builders,   \* Builder objects: index -> [api |-> address of its private array]
    derived,    \* history: for each builder, the call that created it
    call        \* the last completed call and its outcome

vars == <<arrays, builders, derived, call>>

----------------------------------------------------------------------------
(* Bounds *)

MaxLen == 4           \* longest api handed to checkApi / asApi
MaxPairLen == 2       \* longest api in the two-array comparison
MaxBuilders == 4      \* number of Builder objects created in one run
MaxResourceLen == 2   \* longest resource name handed to asCrudApi

----------------------------------------------------------------------------
(* Strings *)

GET == <<"g", "e", "t">>
POST == <<"p", "o", "s", "t">>
PUT == <<"p", "u", "t">>
PATCH == <<"p", "a", "t", "c", "h">>
DELETE == <<"d", "e", "l", "e", "t", "e">>

\* the Method enumeration of an endpoint description
Methods == {GET, POST, PUT, PATCH, DELETE}

PathA == <<"/", "a">>
PathB == <<"/", "b">>
Paths == {PathA, PathB}

\* the remaining attributes of a hand-written endpoint description
RestPlain == [alias |-> <<"x">>, response |-> [kind |-> "object", of |-> "A"]]
RestFull ==
    [alias |-> <<"y">>,
     description |-> <<"d">>,
     parameters |-> << [name |-> <<"q">>, type |-> "Query",
                        schema |-> [kind |-> "object", of |-> "Q"]] >>,
     response |-> [kind |-> "object", of |-> "B"],
     errors |-> << [status |-> 404, schema |-> [kind |-> "object", of |-> "E"]] >>]
Rests == {RestPlain, RestFull}

\* an endpoint description literal { method, path, ...rest }
Endpoint(m, p, rest) ==
    IF "errors" \in DOMAIN rest
    THEN [method |-> m, path |-> p, alias |-> rest.alias,
          description |-> rest.description, parameters |-> rest.parameters,
          response |-> rest.response, errors |-> rest.errors]
    ELSE [method |-> m, path |-> p, alias |-> rest.alias,
          response |-> rest.response]

PlainEndpoints == {Endpoint(m, p, RestPlain) : m \in Methods, p \in Paths}
AllEndpoints == {Endpoint(m, p, r) : m \in Methods, p \in Paths, r \in Rests}

BoundedSeq(S, n) == UNION {[1..k -> S] : k \in 0..n}

----------------------------------------------------------------------------
(* checkApi, src/src/api.ts:20-29 *)

\* variant: the key is the path alone
fullpathPathOnly(endpoint) == endpoint.path

\* variant: the key also covers the alias
fullpathWithAlias(endpoint) ==
    endpoint.method \o <<" ">> \o endpoint.path \o <<" ">> \o endpoint.alias

\* `${endpoint.method} ${endpoint.path}`
fullpath(endpoint) == endpoint.method \o <<" ">> \o endpoint.path

\* `Zodios: Duplicate path '${fullpath}'`
ErrorPrefix ==
    <<"Z", "o", "d", "i", "o", "s", ":", " ",
      "D", "u", "p", "l", "i", "c", "a", "t", "e", " ",
      "p", "a", "t", "h", " ", "'">>
DuplicateMessage(fp) == ErrorPrefix \o fp \o <<"'">>

Returned(v) == [outcome |-> "return", value |-> v, message |-> <<>>]
Thrown(msg) == [outcome |-> "throw", value |-> <<>>, message |-> msg]

\* the for..of loop: i is the next position, paths the Set built so far
RECURSIVE checkApiLoop(_, _, _)
checkApiLoop(api, i, paths) ==
    IF i > Len(api)
    THEN Returned(<<>>)
    ELSE IF fullpath(api[i]) \in paths
         THEN Thrown(DuplicateMessage(fullpath(api[i])))
         ELSE checkApiLoop(api, i + 1, paths \cup {fullpath(api[i])})

\* variant: reports the earliest endpoint that is repeated later on
checkApiByFirstOccurrence(api) ==
    LET repeated == {i \in 1..Len(api) :
                        \E j \in (i + 1)..Len(api) :
                            fullpath(api[i]) = fullpath(api[j])}
    IN  IF repeated = {}
        THEN Returned(<<>>)
        ELSE LET i == CHOOSE k \in repeated : \A m \in repeated : k <= m
             IN  Thrown(DuplicateMessage(fullpath(api[i])))

\* variant: only the last endpoint is compared with the ones before it
checkApiLastOnly(api) ==
    IF /\ Len(api) > 0
       /\ \E i \in 1..(Len(api) - 1) :
              fullpath(api[i]) = fullpath(api[Len(api)])
    THEN Thrown(DuplicateMessage(fullpath(api[Len(api)])))
    ELSE Returned(<<>>)

checkApi(api) == checkApiLoop(api, 1, {})

\* variant: drops the repeated endpoints instead of failing
RECURSIVE Deduplicate(_, _)
Deduplicate(api, paths) ==
    IF api = <<>>
    THEN <<>>
    ELSE IF fullpath(Head(api)) \in paths
         THEN Deduplicate(Tail(api), paths)
         ELSE <<Head(api)>>
                  \o Deduplicate(Tail(api), paths \cup {fullpath(Head(api))})

asApiDeduplicated(api) == Returned(Deduplicate(api, {}))

\* asApi, src/src/api.ts:37-40: checkApi(api); return api
asApi(api) ==
    IF checkApi(api).outcome = "throw"
    THEN checkApi(api)
    ELSE Returned(api)

----------------------------------------------------------------------------
(* Calls on a caller-owned array *)

NoCall ==
    [op |-> "none", target |-> 0, outcome |-> "none", value |-> <<>>,
     message |-> <<>>, builder |-> 0]

Completed(op, target, res) ==
    [op |-> op, target |-> target, outcome |-> res.outcome,
     value |-> res.value, message |-> res.message, builder |-> 0]

CallCheckApi(a) ==
    /\ a \in DOMAIN arrays
    /\ call' = Completed("checkApi", a, checkApi(arrays[a]))
    /\ UNCHANGED <<arrays, builders, derived>>

CallAsApi(a) ==
    /\ a \in DOMAIN arrays
    /\ call' = Completed("asApi", a, asApi(arrays[a]))
    /\ UNCHANGED <<arrays, builders, derived>>

InitValidate ==
    /\ arrays \in {<<api>> : api \in BoundedSeq(PlainEndpoints, MaxLen)}
    /\ builders = <<>>
    /\ derived = <<>>
    /\ call = NoCall

NextValidate ==
    \/ CallCheckApi(1)
    \/ CallAsApi(1)

SpecValidate == InitValidate /\ [][NextValidate]_vars

----------------------------------------------------------------------------
(* Two caller-owned arrays that agree on method and path at every position *)

Relabel(api, rests) ==
    [i \in 1..Len(api) |-> Endpoint(api[i].method, api[i].path, rests[i])]

SameKeys(s, t) ==
    /\ Len(s) = Len(t)
    /\ \A i \in 1..Len(s) : s[i].method = t[i].method /\ s[i].path = t[i].path

InitPair ==
    /\ \E api \in BoundedSeq(AllEndpoints, MaxPairLen) :
           \E rests \in [1..Len(api) -> Rests] :
               arrays = <<api, Relabel(api, rests)>>
    /\ builders = <<>>
    /\ derived = <<>>
    /\ call = NoCall

NextPair ==
    \/ CallCheckApi(1)
    \/ CallCheckApi(2)

SpecPair == InitPair /\ [][NextPair]_vars

----------------------------------------------------------------------------
(* Builder, src/src/api.ts:54-63, and apiBuilder, src/src/api.ts:71-75 *)

\* endpoints handed to apiBuilder and addEndpoint: two share the path, two
\* share the method
BuilderEndpoints ==
    {Endpoint(GET, PathA, RestPlain),
     Endpoint(POST, PathA, RestPlain),
     Endpoint(GET, PathB, RestPlain)}

\* this.api of builder b
Held(b) == arrays[builders[b].api]

\* new Builder([endpoint])
apiBuilder(endpoint) ==
    /\ Len(builders) < MaxBuilders
    /\ arrays' = Append(arrays, <<endpoint>>)
    /\ builders' = Append(builders, [api |-> Len(arrays) + 1])
    /\ derived' = Append(derived, [from |-> 0, endpoint |-> endpoint])
    /\ call' = [op |-> "apiBuilder", target |-> 0, outcome |-> "return",
                value |-> <<>>, message |-> <<>>,
                builder |-> Len(builders) + 1]

\* variant: pushes onto the receiver's array and shares it
addEndpointInPlace(b, endpoint) ==
    /\ b \in DOMAIN builders
    /\ Len(builders) < MaxBuilders
    /\ arrays' = [arrays EXCEPT ![builders[b].api] = Append(@, endpoint)]
    /\ builders' = Append(builders, [api |-> builders[b].api])
    /\ derived' = Append(derived, [from |-> b, endpoint |-> endpoint])
    /\ call' = [op |-> "addEndpoint", target |-> b, outcome |-> "return",
                value |-> <<>>, message |-> <<>>,
                builder |-> Len(builders) + 1]

\* variant: validates on every addition
addEndpointChecked(b, endpoint) ==
    /\ b \in DOMAIN builders
    /\ Len(builders) < MaxBuilders
    /\ IF checkApi(Held(b) \o <<endpoint>>).outcome = "throw"
       THEN /\ call' = Completed("addEndpoint", b,
                                 checkApi(Held(b) \o <<endpoint>>))
            /\ UNCHANGED <<arrays, builders, derived>>
       ELSE /\ arrays' = Append(arrays, Held(b) \o <<endpoint>>)
            /\ builders' = Append(builders, [api |-> Len(arrays) + 1])
            /\ derived' = Append(derived, [from |-> b, endpoint |-> endpoint])
            /\ call' = [op |-> "addEndpoint", target |-> b,
                        outcome |-> "return", value |-> <<>>,
                        message |-> <<>>, builder |-> Len(builders) + 1]

\* new Builder([...this.api, endpoint])
addEndpoint(b, endpoint) ==
    /\ b \in DOMAIN builders
    /\ Len(builders) < MaxBuilders
    /\ arrays' = Append(arrays, Held(b) \o <<endpoint>>)
    /\ builders' = Append(builders, [api |-> Len(arrays) + 1])
    /\ derived' = Append(derived, [from |-> b, endpoint |-> endpoint])
    /\ call' = [op |-> "addEndpoint", target |-> b, outcome |-> "return",
                value |-> <<>>, message |-> <<>>,
                builder |-> Len(builders) + 1]

\* variant: returns this.api without validating it
buildUnchecked(b) ==
    /\ b \in DOMAIN builders
    /\ call' = Completed("build", b, Returned(Held(b)))
    /\ UNCHANGED <<arrays, builders, derived>>

\* checkApi(this.api); return this.api
build(b) ==
    /\ b \in DOMAIN builders
    /\ call' = IF checkApi(Held(b)).outcome = "throw"
               THEN Completed("build", b, checkApi(Held(b)))
               ELSE Completed("build", b, Returned(Held(b)))
    /\ UNCHANGED <<arrays, builders, derived>>

InitBuilder ==
    /\ arrays = <<>>
    /\ builders = <<>>
    /\ derived = <<>>
    /\ call = NoCall

NextBuilder ==
    \/ \E e \in BuilderEndpoints : apiBuilder(e)
    \/ \E b \in DOMAIN builders : \E e \in BuilderEndpoints : addEndpoint(b, e)
    \/ \E b \in DOMAIN builders : build(b)

SpecBuilder == InitBuilder /\ [][NextBuilder]_vars

----------------------------------------------------------------------------
(* asCrudApi, src/src/api.ts:83-175 *)

ResourceChars == {"u", "s", "i", "d", "/", ":", " "}
Resources == BoundedSeq(ResourceChars, MaxResourceLen)

\* zod object schemas and the two derivations asCrudApi asks zod for
Schemas == {[kind |-> "object", of |-> "User"],
            [kind |-> "object", of |-> "Widget"]}
ZodArray(schema) == [kind |-> "array", of |-> schema]
ZodPartial(schema) == [kind |-> "partial", of |-> schema]

\* String.prototype.toUpperCase on one character
ToUpperCase(c) ==
    CASE c = "u" -> "U"
      [] c = "s" -> "S"
      [] c = "i" -> "I"
      [] c = "d" -> "D"
      [] OTHER -> c

\* capitalize of ./utils: the first character upper-cased, the rest as is
capitalize(str) ==
    IF str = <<>> THEN <<>> ELSE <<ToUpperCase(Head(str))>> \o Tail(str)

BodyParameter(description, schema) ==
    [name |-> <<"b", "o", "d", "y">>, type |-> "Body",
     description |-> description, schema |-> schema]

\* { method: "get", path: `/${resource}s`, ... }
CrudGetAll(resource, capitalizedResource, schema) ==
    [method |-> GET,
     path |-> <<"/">> \o resource \o <<"s">>,
     alias |-> <<"g", "e", "t">> \o capitalizedResource \o <<"s">>,
     description |-> <<"G", "e", "t", " ", "a", "l", "l", " ">>
                         \o resource \o <<"s">>,
     response |-> ZodArray(schema)]

\* variant: the path of the list endpoint
CrudGetOneNoId(resource, capitalizedResource, schema) ==
    [method |-> GET,
     path |-> <<"/">> \o resource \o <<"s">>,
     alias |-> <<"g", "e", "t">> \o capitalizedResource,
     description |-> <<"G", "e", "t", " ", "a", " ">> \o resource,
     response |-> schema]

\* { method: "get", path: `/${resource}s/:id`, ... }
CrudGetOne(resource, capitalizedResource, schema) ==
    [method |-> GET,
     path |-> <<"/">> \o resource \o <<"s", "/", ":", "i", "d">>,
     alias |-> <<"g", "e", "t">> \o capitalizedResource,
     description |-> <<"G", "e", "t", " ", "a", " ">> \o resource,
     response |-> schema]

\* { method: "post", path: `/${resource}s`, ... }
CrudCreate(resource, capitalizedResource, schema) ==
    [method |-> POST,
     path |-> <<"/">> \o resource \o <<"s">>,
     alias |-> <<"c", "r", "e", "a", "t", "e">> \o capitalizedResource,
     description |-> <<"C", "r", "e", "a", "t", "e", " ", "a", " ">>
                         \o resource,
     parameters |->
         << BodyParameter(<<"T", "h", "e", " ", "o", "b", "j", "e", "c", "t",
                            " ", "t", "o", " ", "c", "r", "e", "a", "t", "e">>,
                          ZodPartial(schema)) >>,
     response |-> schema]

\* variant: the body schema of create and patch
CrudUpdatePartial(resource, capitalizedResource, schema) ==
    [method |-> PUT,
     path |-> <<"/">> \o resource \o <<"s", "/", ":", "i", "d">>,
     alias |-> <<"u", "p", "d", "a", "t", "e">> \o capitalizedResource,
     description |-> <<"U", "p", "d", "a", "t", "e", " ", "a", " ">>
                         \o resource,
     parameters |->
         << BodyParameter(<<"T", "h", "e", " ", "o", "b", "j", "e", "c", "t",
                            " ", "t", "o", " ", "u", "p", "d", "a", "t", "e">>,
                          ZodPartial(schema)) >>,
     response |-> schema]

\* { method: "put", path: `/${resource}s/:id`, ... }
CrudUpdate(resource, capitalizedResource, schema) ==
    [method |-> PUT,
     path |-> <<"/">> \o resource \o <<"s", "/", ":", "i", "d">>,
     alias |-> <<"u", "p", "d", "a", "t", "e">> \o capitalizedResource,
     description |-> <<"U", "p", "d", "a", "t", "e", " ", "a", " ">>
                         \o resource,
     parameters |->
         << BodyParameter(<<"T", "h", "e", " ", "o", "b", "j", "e", "c", "t",
                            " ", "t", "o", " ", "u", "p", "d", "a", "t", "e">>,
                          schema) >>,
     response |-> schema]

\* { method: "patch", path: `/${resource}s/:id`, ... }
CrudPatch(resource, capitalizedResource, schema) ==
    [method |-> PATCH,
     path |-> <<"/">> \o resource \o <<"s", "/", ":", "i", "d">>,
     alias |-> <<"p", "a", "t", "c", "h">> \o capitalizedResource,
     description |-> <<"P", "a", "t", "c", "h", " ", "a", " ">> \o resource,
     parameters |->
         << BodyParameter(<<"T", "h", "e", " ", "o", "b", "j", "e", "c", "t",
                            " ", "t", "o", " ", "p", "a", "t", "c", "h">>,
                          ZodPartial(schema)) >>,
     response |-> schema]

\* { method: "delete", path: `/${resource}s/:id`, ... }
CrudDelete(resource, capitalizedResource, schema) ==
    [method |-> DELETE,
     path |-> <<"/">> \o resource \o <<"s", "/", ":", "i", "d">>,
     alias |-> <<"d", "e", "l", "e", "t", "e">> \o capitalizedResource,
     description |-> <<"D", "e", "l", "e", "t", "e", " ", "a", " ">>
                         \o resource,
     response |-> schema]

asCrudApi(resource, schema) ==
    LET capitalizedResource == capitalize(resource)
    IN  asApi(<< CrudGetAll(resource, capitalizedResource, schema),
                 CrudGetOne(resource, capitalizedResource, schema),
                 CrudCreate(resource, capitalizedResource, schema),
                 CrudUpdate(resource, capitalizedResource, schema),
                 CrudPatch(resource, capitalizedResource, schema),
                 CrudDelete(resource, capitalizedResource, schema) >>)

CallAsCrudApi(resource, schema) ==
    /\ call' = Completed("asCrudApi",
                         [resource |-> resource, schema |-> schema],
                         asCrudApi(resource, schema))
    /\ UNCHANGED <<arrays, builders, derived>>

InitCrud ==
    /\ arrays = <<>>
    /\ builders = <<>>
    /\ derived = <<>>
    /\ call = NoCall

NextCrud ==
    \E resource \in Resources : \E schema \in Schemas :
        CallAsCrudApi(resource, schema)

SpecCrud == InitCrud /\ [][NextCrud]_vars

----------------------------------------------------------------------------
(* Claims about checkApi and asApi *)

\* the api of the last call
Target == arrays[call.target]

SameMethodAndPath(e, f) == e.method = f.method /\ e.path = f.path

HasDuplicate(api) ==
    \E i, j \in 1..Len(api) : i < j /\ SameMethodAndPath(api[i], api[j])

\* C1: checkApi returns normally if and only if no two positions of the
\* sequence hold endpoints that share both method and path; sharing only the
\* path or only the method never makes it fail.
C1_ReturnsIffUnique ==
    call.op = "checkApi" =>
        (call.outcome = "return" <=> ~HasDuplicate(Target))

C1_Witness ==
    /\ call.op = "checkApi"
    /\ call.outcome = "return"
    /\ \E i, j \in 1..Len(Target) :
           /\ Target[i].path = Target[j].path
           /\ Target[i].method # Target[j].method
    /\ \E i, j \in 1..Len(Target) :
           /\ Target[i].method = Target[j].method
           /\ Target[i].path # Target[j].path

\* j is the smallest index whose endpoint repeats an earlier (method, path)
FirstCollision(api, j) ==
    /\ j \in 1..Len(api)
    /\ \E i \in 1..(j - 1) : SameMethodAndPath(api[i], api[j])
    /\ \A k \in 1..(j - 1) :
           ~ \E i \in 1..(k - 1) : SameMethodAndPath(api[i], api[k])

\* C2: when checkApi or asApi fails, the error carries the "METHOD path"
\* string of the endpoint at the smallest index j that repeats the method and
\* path of an earlier index; no other collision is reported.
C2_ReportsFirstCollision ==
    (call.op \in {"checkApi", "asApi"} /\ call.outcome = "throw") =>
        \E j \in 1..Len(Target) :
            /\ FirstCollision(Target, j)
            /\ call.message =
                   ErrorPrefix \o Target[j].method \o <<" ">>
                       \o Target[j].path \o <<"'">>

C2_Witness ==
    /\ call.op = "asApi"
    /\ call.outcome = "throw"
    /\ Len(Target) = 4
    /\ SameMethodAndPath(Target[1], Target[4])
    /\ SameMethodAndPath(Target[2], Target[3])
    /\ ~SameMethodAndPath(Target[1], Target[2])

\* C7: asApi fails exactly when checkApi fails on its input and then yields
\* no result; otherwise it returns its input, same length, elements and
\* order; neither asApi nor checkApi changes the input sequence.
C7_PassThrough ==
    [][/\ arrays' = arrays
       /\ call'.op = "checkApi" => call'.value = <<>>
       /\ call'.op = "asApi" =>
              IF checkApi(arrays[call'.target]).outcome = "throw"
              THEN call'.outcome = "throw" /\ call'.value = <<>>
              ELSE call'.outcome = "return"
                   /\ call'.value = arrays[call'.target]]_vars

C7_Witness ==
    /\ call.op = "asApi"
    /\ call.outcome = "return"
    /\ Len(call.value) = 3

\* C8: two sequences of the same length that agree position by position on
\* method and path get the same outcome from checkApi, the reported string
\* included, whatever their other attributes.
C8_OnlyMethodAndPath ==
    [][(/\ SameKeys(arrays[1], arrays[2])
        /\ call.op = "checkApi"
        /\ call'.op = "checkApi")
       => (call'.outcome = call.outcome /\ call'.message = call.message)]_vars

C8_Witness ==
    /\ call.op = "checkApi"
    /\ call.target = 2
    /\ call.outcome = "return"
    /\ arrays[1] # arrays[2]
    /\ Len(arrays[2]) = 2
    /\ arrays[2][1].alias = arrays[2][2].alias

----------------------------------------------------------------------------
(* Claims about the Builder *)

\* the endpoints e1, ..., en handed to apiBuilder and addEndpoint on the way
\* to builder b, in call order
RECURSIVE Chain(_)
Chain(b) ==
    IF derived[b].from = 0
    THEN <<derived[b].endpoint>>
    ELSE Chain(derived[b].from) \o <<derived[b].endpoint>>

\* the builders b was obtained from by addEndpoint calls
RECURSIVE Ancestors(_)
Ancestors(b) ==
    IF derived[b].from = 0
    THEN {}
    ELSE {derived[b].from} \cup Ancestors(derived[b].from)

\* C3: apiBuilder(e1).addEndpoint(e2)...addEndpoint(en).build() has the
\* outcome of asApi([e1, ..., en]): the same list in the same order, or the
\* same reported collision.
C3_BuilderEquivalence ==
    call.op = "build" =>
        /\ call.outcome = asApi(Chain(call.target)).outcome
        /\ call.value = asApi(Chain(call.target)).value
        /\ call.message = asApi(Chain(call.target)).message

C3_Witness ==
    /\ call.op = "build"
    /\ call.outcome = "return"
    /\ Len(call.value) = 3
    /\ call.value[1] # call.value[2]
    /\ call.value[2] # call.value[3]

\* C4: no addEndpoint or build call changes the sequence held by an existing
\* builder; every builder holds its parent's sequence followed by its own
\* endpoint, and build works on exactly that sequence, however the branches
\* of a builder are interleaved.
C4_BuilderImmutable ==
    [][/\ \A b \in DOMAIN builders :
              /\ b \in DOMAIN builders'
              /\ arrays'[builders'[b].api] = Held(b)
       /\ \A c \in DOMAIN builders' :
              derived'[c].from # 0 =>
                  arrays'[builders'[c].api] =
                      Append(arrays'[builders'[derived'[c].from].api],
                             derived'[c].endpoint)
       /\ (call'.op = "build" /\ call'.outcome = "return") =>
              call'.value = arrays'[builders'[call'.target].api]]_vars

C4_Witness ==
    /\ Len(builders) >= 3
    /\ derived[2].from = 1
    /\ derived[3].from = 1
    /\ derived[2].endpoint # derived[3].endpoint
    /\ call.op = "build"
    /\ call.target = 2
    /\ call.outcome = "return"
    /\ call.value = Held(1) \o <<derived[2].endpoint>>

\* C9: apiBuilder and addEndpoint always return; addEndpoint returns a new
\* builder holding the receiver's sequence with the endpoint appended at the
\* end, also when its (method, path) is already there; only build can throw.
C9_SingleValidationGate ==
    /\ call.outcome = "throw" => call.op = "build"
    /\ call.op = "apiBuilder" =>
           /\ call.outcome = "return"
           /\ call.builder = Len(builders)
           /\ Held(call.builder) = <<derived[call.builder].endpoint>>
    /\ call.op = "addEndpoint" =>
           /\ call.outcome = "return"
           /\ call.builder = Len(builders)
           /\ call.builder # call.target
           /\ derived[call.builder].from = call.target
           /\ Held(call.builder) =
                  Append(Held(call.target), derived[call.builder].endpoint)

C9_Witness ==
    /\ call.op = "addEndpoint"
    /\ call.outcome = "return"
    /\ \E i \in 1..Len(Held(call.target)) :
           SameMethodAndPath(Held(call.target)[i], derived[call.builder].endpoint)

\* C10: if build fails on b, build on any builder derived from b fails with
\* the same reported string; if build succeeds on a derived builder it
\* succeeds on the builders it was derived from.
C10_FailurePermanent ==
    [][(/\ call.op = "build"
        /\ call'.op = "build"
        /\ call.target \in Ancestors(call'.target))
       => /\ call.outcome = "throw" =>
                 (call'.outcome = "throw" /\ call'.message = call.message)
          /\ call'.outcome = "return" => call.outcome = "return"]_vars

C10_Witness ==
    /\ call.op = "build"
    /\ call.outcome = "throw"
    /\ derived[call.target].from # 0
    /\ HasDuplicate(Held(derived[call.target].from))
    /\ ~SameMethodAndPath(derived[call.target].endpoint,
                          derived[derived[call.target].from].endpoint)

----------------------------------------------------------------------------
(* Claims about asCrudApi *)

\* r with its first character upper-cased
UpperFirst(r) ==
    IF Len(r) = 0
    THEN r
    ELSE [i \in 1..Len(r) |-> IF i = 1 THEN ToUpperCase(r[1]) ELSE r[i]]

Plural(r) == r \o <<"s">>
WithId(p) == p \o <<"/", ":", "i", "d">>

NoParameters(e) == "parameters" \notin DOMAIN e

OneBodyParameter(e, schema) ==
    /\ "parameters" \in DOMAIN e
    /\ Len(e.parameters) = 1
    /\ e.parameters[1].name = <<"b", "o", "d", "y">>
    /\ e.parameters[1].type = "Body"
    /\ e.parameters[1].schema = schema

Row(e, method, path, alias, response) ==
    /\ e.method = method
    /\ e.path = path
    /\ e.alias = alias
    /\ e.response = response

\* C5: asCrudApi(r, S) returns exactly six endpoints, in the order
\* get /{r}s, get /{r}s/:id, post /{r}s, put /{r}s/:id, patch /{r}s/:id,
\* delete /{r}s/:id, with aliases get{R}s, get{R}, create{R}, update{R},
\* patch{R}, delete{R}, a body parameter only on post (partial S), put (S)
\* and patch (partial S), and response S except array of S for the list.
C5_CrudTable ==
    call.op = "asCrudApi" =>
        LET r == call.target.resource
            S == call.target.schema
            R == UpperFirst(r)
            v == call.value
        IN  /\ call.outcome = "return"
            /\ Len(v) = 6
            /\ Row(v[1], GET, <<"/">> \o Plural(r),
                   <<"g", "e", "t">> \o R \o <<"s">>,
                   [kind |-> "array", of |-> S])
            /\ NoParameters(v[1])
            /\ Row(v[2], GET, WithId(<<"/">> \o Plural(r)),
                   <<"g", "e", "t">> \o R, S)
            /\ NoParameters(v[2])
            /\ Row(v[3], POST, <<"/">> \o Plural(r),
                   <<"c", "r", "e", "a", "t", "e">> \o R, S)
            /\ OneBodyParameter(v[3], [kind |-> "partial", of |-> S])
            /\ Row(v[4], PUT, WithId(<<"/">> \o Plural(r)),
                   <<"u", "p", "d", "a", "t", "e">> \o R, S)
            /\ OneBodyParameter(v[4], S)
            /\ Row(v[5], PATCH, WithId(<<"/">> \o Plural(r)),
                   <<"p", "a", "t", "c", "h">> \o R, S)
            /\ OneBodyParameter(v[5], [kind |-> "partial", of |-> S])
            /\ Row(v[6], DELETE, WithId(<<"/">> \o Plural(r)),
                   <<"d", "e", "l", "e", "t", "e">> \o R, S)
            /\ NoParameters(v[6])

C5_Witness ==
    /\ call.op = "asCrudApi"
    /\ call.target.resource = <<"u", "s">>
    /\ call.value[1].alias = <<"g", "e", "t", "U", "s", "s">>
    /\ call.value[3].path = <<"/", "u", "s", "s">>

\* C6: for every resource name, the empty one and those with '/', ':' or
\* spaces included, the six (method, path) pairs are pairwise distinct and
\* the validation asCrudApi runs on them does not throw.
C6_CrudNeverDuplicate ==
    call.op = "asCrudApi" =>
        /\ call.outcome = "return"
        /\ Len(call.value) = 6
        /\ \A i, j \in 1..6 :
               i # j => ~SameMethodAndPath(call.value[i], call.value[j])

C6_Witness ==
    /\ call.op = "asCrudApi"
    /\ call.outcome = "return"
    /\ call.target.resource = <<"/", ":">>

====
